---------------------------- MODULE Spec2Model ----------------------------
(***************************************************************************)
(* Model of docs/Archived_Docs/scripts/scraper.py: the LeadScraper         *)
(* pipeline (fetch, extract, classify, resolve, dedup, persist).           *)
(*                                                                         *)
(* Strings are sequences of characters; a character is a one-character     *)
(* string, or the name of a code point ("U+017F") for a non-ASCII one.     *)
(***************************************************************************)
EXTENDS Integers, Sequences, FiniteSets, TLC

VARIABLES
    \* the pure-function harnesses
    fnpc,        \* position of the harness
    text,        \* argument of detect_trigger_event
    event_type,  \* its result
    prev,        \* the previous call (argument and result), or NoCall
    title,       \* argument of extract_company_name
    completion,  \* what the completion call does when it is made
    ret,         \* the outcome of extract_company_name
    \* the environment and the LeadScraper object
    SUPABASE_URL, SUPABASE_KEY, OPENAI_API_KEY,
    supabase,      \* TRUE when self.supabase is a client
    openai_client, \* TRUE when self.openai_client is a client
    \* the world outside
    snapshot,    \* what the sources serve
    store,       \* the rows of trigger_events
    \* run, scrape_source and save_events
    pc,          \* where the run stands
    src,         \* index of the source of the for loop of run
    browser,     \* "none", "open" or "closed"
    page,        \* "none", "open" or "closed"
    article_elements, \* the elements the loop of scrape_source walks
    idx,         \* index of the element of that loop
    articles,    \* scrape_source's list
    all_events,  \* run's list
    ei,          \* index of the event of the loop of save_events
    returned,    \* what run returned, or Absent
    \* history of the current run
    ops,         \* the store operations made, in order
    fetch_failed, \* the sources whose fetch failed
    opened,      \* browser launches
    released,    \* browser releases
    store0,      \* the store when the run started
    since_change, \* runs that returned since the sources last changed (2: two or more)
    prev_links,  \* the links of the events the last returned run accumulated
    trace        \* pages opened and closed, pauses and resolver calls, in order

classifyVars == <<text, event_type, prev>>
resolveVars == <<title, completion, ret>>
pureVars == <<fnpc, text, event_type, prev, title, completion, ret>>
envVars == <<SUPABASE_URL, SUPABASE_KEY, OPENAI_API_KEY, supabase, openai_client>>
runVars == <<snapshot, store, pc, src, browser, page, article_elements, idx, articles,
             all_events, ei, returned, ops, fetch_failed, opened, released, store0,
             since_change, prev_links, trace>>
vars == <<pureVars, envVars, runVars>>

None == "None"
NoCall == [text |-> <<>>, event_type |-> "NoCall"]

-----------------------------------------------------------------------------
(* str.lower / str.upper, character by character (Python 3, Unicode).      *)

UpperChars == <<"A", "B", "C", "D", "E", "F", "G", "H", "I", "J", "K", "L", "M", "N", "O", "P", "Q", "R", "S", "T", "U", "V", "W", "X", "Y", "Z">>
LowerChars == <<"a", "b", "c", "d", "e", "f", "g", "h", "i", "j", "k", "l", "m", "n", "o", "p", "q", "r", "s", "t", "u", "v", "w", "x", "y", "z">>

AsciiLetters == {UpperChars[i] : i \in 1..26} \cup {LowerChars[i] : i \in 1..26}

\* U+017F LATIN SMALL LETTER LONG S and U+0131 LATIN SMALL LETTER DOTLESS I
\* are lower case already: str.lower leaves them, str.upper gives S and I.
LongS == "U+017F"
DotlessI == "U+0131"

LowerChar(c) ==
    IF \E i \in 1..26 : UpperChars[i] = c
    THEN LowerChars[CHOOSE i \in 1..26 : UpperChars[i] = c]
    ELSE c

UpperChar(c) ==
    IF \E i \in 1..26 : LowerChars[i] = c
    THEN UpperChars[CHOOSE i \in 1..26 : LowerChars[i] = c]
    ELSE IF c = LongS THEN "S"
    ELSE IF c = DotlessI THEN "I"
    ELSE c

Lower(s) == [i \in 1..Len(s) |-> LowerChar(s[i])]

\* `sub in s` for str
Contains(s, sub) ==
    \E i \in 1..(Len(s) - Len(sub) + 1) : SubSeq(s, i, i + Len(sub) - 1) = sub

-----------------------------------------------------------------------------
(* TRIGGER_KEYWORDS: a dict, iterated in insertion order.                  *)

TRIGGER_KEYWORDS ==
   <<
      [event_type |-> "funding", keywords |-> <<
          <<"f", "u", "n", "d", "i", "n", "g">>,
          <<"r", "a", "i", "s", "e", "d">>,
          <<"s", "e", "r", "i", "e", "s">>,
          <<"i", "n", "v", "e", "s", "t", "m", "e", "n", "t">>,
          <<"v", "e", "n", "t", "u", "r", "e", " ", "c", "a", "p", "i", "t", "a", "l">>,
          <<"s", "e", "e", "d", " ", "r", "o", "u", "n", "d">> >>],
      [event_type |-> "new_hires", keywords |-> <<
          <<"h", "i", "r", "e", "d">>,
          <<"a", "p", "p", "o", "i", "n", "t", "e", "d">>,
          <<"j", "o", "i", "n", "s">>,
          <<"n", "e", "w", " ", "e", "x", "e", "c", "u", "t", "i", "v", "e">>,
          <<"c", "-", "s", "u", "i", "t", "e">> >>],
      [event_type |-> "expansion", keywords |-> <<
          <<"e", "x", "p", "a", "n", "d", "i", "n", "g">>,
          <<"n", "e", "w", " ", "o", "f", "f", "i", "c", "e">>,
          <<"e", "n", "t", "e", "r", "i", "n", "g">>,
          <<"l", "a", "u", "n", "c", "h", "i", "n", "g", " ", "i", "n">>,
          <<"i", "n", "t", "e", "r", "n", "a", "t", "i", "o", "n", "a", "l">> >>],
      [event_type |-> "product_launch", keywords |-> <<
          <<"l", "a", "u", "n", "c", "h", "e", "d">>,
          <<"u", "n", "v", "e", "i", "l", "s">>,
          <<"a", "n", "n", "o", "u", "n", "c", "e", "s">>,
          <<"n", "e", "w", " ", "p", "r", "o", "d", "u", "c", "t">>,
          <<"r", "e", "l", "e", "a", "s", "e">> >>],
      [event_type |-> "partnership", keywords |-> <<
          <<"p", "a", "r", "t", "n", "e", "r", "s", "h", "i", "p">>,
          <<"p", "a", "r", "t", "n", "e", "r", "s", " ", "w", "i", "t", "h">>,
          <<"c", "o", "l", "l", "a", "b", "o", "r", "a", "t", "i", "o", "n">>,
          <<"t", "e", "a", "m", "s", " ", "u", "p">> >>]
   >>

AnyKeyword(keywords, text_lower) ==
    \E j \in 1..Len(keywords) : Contains(text_lower, keywords[j])

\* mutant: the taxonomy walked from its last category to its first
RECURSIVE DetectFromLast(_, _)
DetectFromLast(text_lower, i) ==
    IF i < 1 THEN None
    ELSE IF AnyKeyword(TRIGGER_KEYWORDS[i].keywords, text_lower)
         THEN TRIGGER_KEYWORDS[i].event_type
         ELSE DetectFromLast(text_lower, i - 1)

detect_reversed(t) == DetectFromLast(Lower(t), Len(TRIGGER_KEYWORDS))

\* mutant: the keywords looked up in the text as given, not lower-cased
RECURSIVE DetectFromExact(_, _)
DetectFromExact(t, i) ==
    IF i > Len(TRIGGER_KEYWORDS) THEN None
    ELSE IF AnyKeyword(TRIGGER_KEYWORDS[i].keywords, t)
         THEN TRIGGER_KEYWORDS[i].event_type
         ELSE DetectFromExact(t, i + 1)

detect_case_sensitive(t) == DetectFromExact(t, 1)

\* the for loop of detect_trigger_event from category i on
RECURSIVE DetectFrom(_, _)
DetectFrom(text_lower, i) ==
    IF i > Len(TRIGGER_KEYWORDS) THEN None
    ELSE IF AnyKeyword(TRIGGER_KEYWORDS[i].keywords, text_lower)
         THEN TRIGGER_KEYWORDS[i].event_type
         ELSE DetectFrom(text_lower, i + 1)

detect_trigger_event(t) == DetectFrom(Lower(t), 1)

-----------------------------------------------------------------------------
(* str helpers used by extract_company_name and scrape_source.             *)

\* the characters str.split() and str.strip() take for white space
Whitespace == {" ", "\t", "\n", "\r", "\f", "U+000B", "U+00A0"}

\* s.split(): the maximal runs of non-white-space characters, in order
WordStarts(s) ==
    {i \in 1..Len(s) : s[i] \notin Whitespace /\ (i = 1 \/ s[i - 1] \in Whitespace)}

WordEnd(s, i) ==
    CHOOSE j \in i..Len(s) :
       /\ \A m \in i..j : s[m] \notin Whitespace
       /\ j = Len(s) \/ s[j + 1] \in Whitespace

NthWordStart(s, n) ==
    CHOOSE i \in WordStarts(s) : Cardinality({j \in WordStarts(s) : j < i}) = n - 1

Split(s) ==
    [n \in 1..Cardinality(WordStarts(s)) |->
        SubSeq(s, NthWordStart(s, n), WordEnd(s, NthWordStart(s, n)))]

\* " ".join(words)
RECURSIVE Join(_)
Join(words) ==
    IF words = <<>> THEN <<>>
    ELSE IF Len(words) = 1 THEN words[1]
    ELSE words[1] \o <<" ">> \o Join(Tail(words))

\* s[:n]
Prefix(s, n) == SubSeq(s, 1, IF Len(s) < n THEN Len(s) ELSE n)

\* s.strip()
Strip(s) ==
    LET inked == {i \in 1..Len(s) : s[i] \notin Whitespace}
    IN  IF inked = {} THEN <<>>
        ELSE SubSeq(s, CHOOSE i \in inked : \A j \in inked : i <= j,
                       CHOOSE i \in inked : \A j \in inked : j <= i)

-----------------------------------------------------------------------------
(* extract_company_name                                                    *)

UnknownCompany == <<"U", "n", "k", "n", "o", "w", "n", " ", "C", "o", "m", "p", "a", "n", "y">>

FallbackWords == 3
FallbackChars == 50

Returned(v) == [raised |-> FALSE, value |-> v]
Raised(e) == [raised |-> TRUE, value |-> e]

\* the completion call: it raises, or answers with a message content
CallFails == [ok |-> FALSE, content |-> <<>>]
CallAnswers(content) == [ok |-> TRUE, content |-> content]

\* lines 126-129: no client
SimpleExtraction(t) ==
    LET words == Split(t)
    IN  IF Len(words) > FallbackWords
        THEN Join(SubSeq(words, 1, FallbackWords))
        ELSE Prefix(t, FallbackChars)

\* lines 150-152: the handler of a failed call; split()[0] of a title
\* without a token raises IndexError out of the handler
CallFailed(t) ==
    IF t # <<>>
    THEN (IF Split(t) = <<>> THEN Raised("IndexError") ELSE Returned(Split(t)[1]))
    ELSE Returned(UnknownCompany)

extract_company_name(t, excerpt, client, call) ==
    IF ~client THEN Returned(SimpleExtraction(t))
    ELSE IF call.ok THEN Returned(Strip(call.content))
    ELSE CallFailed(t)


\* the outcomes of the completion call the model draws from
Completions == {CallFails, CallAnswers(<<" ", "A", "c", "m", "e", " ", "C", "o", "r", "p", "\n">>)}

NoRet == Raised("NoCall")

-----------------------------------------------------------------------------
(* Configuration (lines 16-18) and LeadScraper.__init__ (lines 55-59).     *)

\* a str-valued name that holds None
Absent == <<"None">>

\* os.getenv: the variable is unset, empty, or set
EnvValues == {Absent, <<>>, <<"s", "e", "t">>}

\* what `if v` takes for true
Truthy(v) == v # Absent /\ v # <<>>

\* mutant: a client from either setting alone
CreateSupabaseEither(url, key) == Truthy(url) \/ Truthy(key)

\* TRUE when __init__ makes the store client
CreateSupabase(url, key) == Truthy(url) /\ Truthy(key)

\* TRUE when __init__ makes the completion client
CreateOpenAI(key) == Truthy(key)

-----------------------------------------------------------------------------
(* NEWS_SOURCES and what the sources serve.                                *)

NEWS_SOURCES ==
   << [name |-> "TechCrunch", url |-> <<"h", "t", "t", "p", "s", ":", "/", "/", "t", "e", "c", "h", "c", "r", "u", "n", "c", "h", ".", "c", "o", "m">>],
      [name |-> "Crunchbase News", url |-> <<"h", "t", "t", "p", "s", ":", "/", "/", "n", "e", "w", "s", ".", "c", "r", "u", "n", "c", "h", "b", "a", "s", "e", ".", "c", "o", "m">>] >>

NumSources == Len(NEWS_SOURCES)

\* an article element: whether the title selector matches, the title's
\* inner text and href attribute, whether the excerpt selector matches, and
\* the excerpt's inner text
Element(te, t, h, ee, x) ==
    [title_elem |-> te, title |-> t, href |-> h, excerpt_elem |-> ee, excerpt |-> x]

ElRelative == Element(TRUE, <<"A", "c", "m", "e", " ", "r", "a", "i", "s", "e", "d">>, <<"/", "p", "1">>, FALSE, <<>>)
ElAbsolute == Element(TRUE, <<"A", "c", "m", "e", " ", "r", "a", "i", "s", "e", "d", " ">>, <<"h", "t", "t", "p", "s", ":", "/", "/", "t", "e", "c", "h", "c", "r", "u", "n", "c", "h", ".", "c", "o", "m", "/", "p", "1">>, TRUE, <<"$", "1", "0", "M">>)
ElNoTitle  == Element(FALSE, <<>>, Absent, FALSE, <<>>)
ElPlain    == Element(TRUE, <<"H", "e", "l", "l", "o">>, <<"/", "p", "2">>, TRUE, <<"w", "o", "r", "l", "d">>)
ElBlank    == Element(TRUE, <<" ">>, <<"/", "p", "3">>, TRUE, <<"h", "i", "r", "e", "d">>)
ElNoHref   == Element(TRUE, <<"A", "c", "m", "e", " ", "r", "a", "i", "s", "e", "d">>, Absent, FALSE, <<>>)

\* hrefs that start with "http" without being absolute, and absolute ones
\* that do not start with "http"
ElHttpd    == Element(TRUE, <<"A", "c", "m", "e", " ", "r", "a", "i", "s", "e", "d">>, <<"h", "t", "t", "p", "d", "/", "p", "4">>, FALSE, <<>>)
ElFtp      == Element(TRUE, <<"A", "c", "m", "e", " ", "r", "a", "i", "s", "e", "d">>, <<"f", "t", "p", ":", "/", "/", "x", ".", "i", "o", "/", "p", "5">>, FALSE, <<>>)

\* a title with white space at its end, the keyword "seed round" only in
\* the stripped title and excerpt
ElSeed     == Element(TRUE, <<"A", "c", "m", "e", " ", "h", "i", "r", "e", "d", " ", "s", "e", "e", "d", " ">>, <<"/", "p", "6">>, TRUE, <<"r", "o", "u", "n", "d">>)

ElementPool == {ElRelative, ElAbsolute, ElNoTitle, ElPlain, ElBlank, ElNoHref}

MaxElems == 1

RECURSIVE ListsUpTo(_)
ListsUpTo(n) ==
    IF n = 0 THEN {<<>>}
    ELSE LET shorter == ListsUpTo(n - 1)
         IN  shorter \cup {Append(l, e) : l \in shorter, e \in ElementPool}

\* a list one longer than the loop of line 73 walks: the last element would
\* yield an event
OverLimit == [i \in 1..11 |-> IF i <= 10 THEN ElPlain ELSE ElRelative]

\* longer lists: two elements with one link, elements to skip before and
\* between elements that yield events
LongerLists ==
   { <<ElRelative, ElAbsolute>>,
     <<ElBlank, ElRelative>>,
     <<ElRelative, ElNoTitle, ElBlank>>,
     <<ElNoHref, ElPlain, ElAbsolute>>,
     <<ElHttpd, ElFtp>>,
     <<ElSeed>>,
     OverLimit }

\* the lists a live source may serve
ElementLists == ListsUpTo(MaxElems) \cup LongerLists

\* the sources' content: Live (a fetch may see any list), or frozen to one
\* list per source
Live == [live |-> TRUE, lists |-> [s \in 1..NumSources |-> <<>>]]

FrozenLists == {<<>>, <<ElRelative>>, <<ElRelative, ElAbsolute>>}

FrozenSnapshots == {[live |-> FALSE, lists |-> f] : f \in [1..NumSources -> FrozenLists]}

\* the lists a fetch of source s may see
Served(snap, s) == IF snap.live THEN ElementLists ELSE {snap.lists[s]}

-----------------------------------------------------------------------------
(* scrape_source, lines 73-105: one element of the loop.                   *)

ArticleLimit == 10
SchemePrefix == <<"h", "t", "t", "p">>

StartsWith(s, p) == Len(s) >= Len(p) /\ SubSeq(s, 1, Len(p)) = p

\* lines 82-83
QualifyLink(source, href) ==
    IF ~StartsWith(href, SchemePrefix) THEN source.url \o href ELSE href

\* lines 95-102
Article(source, e, link, et, company_name) ==
    [title |-> Strip(e.title),
     link |-> link,
     excerpt |-> Strip(IF e.excerpt_elem THEN e.excerpt ELSE <<>>),
     event_type |-> et,
     company_name |-> company_name,
     source |-> source.name]

\* mutant: the loop walks every fetched element
ExaminedAll(found) == found

\* line 73: the elements the loop walks
Examined(found) == Prefix(found, ArticleLimit)

\* line 86
ExcerptOf(e) == IF e.excerpt_elem THEN e.excerpt ELSE <<>>

\* line 89
EventTypeOf(e) == detect_trigger_event(e.title \o <<" ">> \o ExcerptOf(e))

\* mutant: every article goes on to the resolver
GateOpen(et) == TRUE

\* line 91: if event_type
Gate(et) == et # None

\* whether the pass for element e reaches the call of line 93
Resolves(e) == e.title_elem /\ e.href # Absent /\ Gate(EventTypeOf(e))

\* what one pass of the loop body appends to articles: nothing when the
\* title element is missing (continue), when href is None (AttributeError
\* at line 82), when no trigger matches, or when the resolver raises
Extracted(source, e, client, call) ==
    IF ~e.title_elem THEN <<>>
    ELSE IF e.href = Absent THEN <<>>
    ELSE LET link == QualifyLink(source, e.href)
             excerpt == ExcerptOf(e)
             et == EventTypeOf(e)
         IN  IF ~Gate(et) THEN <<>>
             ELSE LET r == extract_company_name(e.title, excerpt, client, call)
                  IN  IF r.raised THEN <<>>
                      ELSE <<Article(source, e, link, et, r.value)>>

-----------------------------------------------------------------------------
(* save_events, lines 160-183.                                             *)

\* lines 172-179
Record(event) ==
    [company_name |-> event.company_name,
     event_type |-> event.event_type,
     event_description |-> event.title \o <<"\n", "\n">> \o event.excerpt,
     source_url |-> event.link,
     detected_at |-> "utcnow",
     company_url |-> None]

\* mutant: the existence check filters on company_name
ExistingByCompanyName(st, link) == {i \in 1..Len(st) : st[i].company_name = link}

\* lines 163-166: the rows the existence check selects
Existing(st, link) == {i \in 1..Len(st) : st[i].source_url = link}

\* mutant: a skipped duplicate is taken out of the list
EventsWithoutDuplicate(events, i) ==
    IF \E j \in 1..(i - 1) : events[j].link = events[i].link
    THEN SubSeq(events, 1, i - 1) \o SubSeq(events, i + 1, Len(events))
    ELSE events

\* save_events never writes to the list it is given
EventsAfterSave(events, i) == events

Op(kind, url, ok) == [op |-> kind, url |-> url, ok |-> ok]

\* mutant: the events are taken from the end of the list
EventFromEnd(events, i) == events[Len(events) + 1 - i]

\* line 160: the event of the i-th turn of the loop
EventAt(events, i) == events[i]

\* mutant: the row found by the existence check is overwritten
UpdateDuplicate(st, event) ==
    [i \in 1..Len(st) |-> IF st[i].source_url = event.link THEN Record(event) ELSE st[i]]

\* lines 168-169: continue, the store as it is
SkipDuplicate(st, event) == st

\* mutant: the first error ends the loop
SaveStopsAtError(events, i, ok) ==
    IF ~ok \/ i = Len(events) THEN "return" ELSE "save"

\* lines 160 and 182-183: the loop goes on to the next event, after an
\* error as well
AfterEvent(events, i, ok) == IF i = Len(events) THEN "return" ELSE "save"

\* a step of the run as trace records it
Ev(kind, s, t, x) == [ev |-> kind, src |-> s, title |-> t, excerpt |-> x]

-----------------------------------------------------------------------------
(* The state machine of run (lines 190-214) around scrape_source           *)
(* (lines 61-112) and save_events (lines 154-183).                         *)

PerRunStart ==
    /\ src = 0
    /\ browser = "none"
    /\ page = "none"
    /\ article_elements = <<>>
    /\ idx = 0
    /\ articles = <<>>
    /\ all_events = <<>>
    /\ ei = 0
    /\ ops = <<>>
    /\ returned = Absent
    /\ fetch_failed = {}
    /\ opened = 0
    /\ released = 0
    /\ trace = <<>>

PipelineIdle ==
    /\ pc = "off"
    /\ SUPABASE_URL = Absent
    /\ SUPABASE_KEY = Absent
    /\ OPENAI_API_KEY = Absent
    /\ supabase = FALSE
    /\ snapshot = Live
    /\ since_change = 0
    /\ prev_links = {}
    /\ store = <<>>
    /\ store0 = <<>>
    /\ PerRunStart

\* lines 194-197: the playwright context is entered, the browser launched
RunStart ==
    /\ pc = "idle"
    /\ browser' = "open"
    /\ opened' = opened + 1
    /\ all_events' = <<>>
    /\ src' = 1
    /\ pc' = "new_page"
    /\ store0' = store
    /\ UNCHANGED <<page, article_elements, idx, articles, ei, ops, returned,
                   fetch_failed, released, store, snapshot, since_change, prev_links, trace,
                   envVars, pureVars>>

\* mutant: the error handler leaves scrape_source past the finally
AfterFetchErrorSkipsClose == "extend"

\* lines 107-110: except, then finally
AfterFetchError == "finally"

\* a source-level failure inside the try of scrape_source (line 107)
FetchFails ==
    /\ fetch_failed' = fetch_failed \cup {src}
    /\ pc' = AfterFetchError
    /\ UNCHANGED <<src, browser, page, article_elements, idx, articles, all_events,
                   ei, ops, returned, opened, released, store, store0, snapshot,
                   since_change, prev_links, trace, envVars, pureVars>>

\* lines 63-64: browser.new_page() stands before the try
NewPage ==
    /\ pc = "new_page"
    /\ \/ /\ page' = "open"
          /\ articles' = <<>>
          /\ pc' = "goto"
          /\ trace' = Append(trace, Ev("new_page", src, <<>>, <<>>))
          /\ UNCHANGED fetch_failed
       \/ /\ fetch_failed' = fetch_failed \cup {src}
          /\ pc' = "raising"
          /\ UNCHANGED <<page, articles, trace>>
    /\ UNCHANGED <<src, browser, article_elements, idx, all_events, ei, ops, returned,
                   opened, released, store, store0, snapshot, since_change, prev_links,
                   envVars, pureVars>>

\* line 68
Goto ==
    /\ pc = "goto"
    /\ \/ /\ pc' = "wait"
          /\ UNCHANGED <<src, browser, page, article_elements, idx, articles,
                         all_events, ei, ops, returned, fetch_failed, opened, released,
                         store, store0, snapshot, since_change, prev_links, trace, envVars, pureVars>>
       \/ FetchFails

\* line 69
WaitForSelector ==
    /\ pc = "wait"
    /\ \/ /\ pc' = "query"
          /\ UNCHANGED <<src, browser, page, article_elements, idx, articles,
                         all_events, ei, ops, returned, fetch_failed, opened, released,
                         store, store0, snapshot, since_change, prev_links, trace, envVars, pureVars>>
       \/ FetchFails

\* line 71, and the start of the loop of line 73
QuerySelectorAll ==
    /\ pc = "query"
    /\ \/ /\ \E found \in Served(snapshot, src) :
                /\ article_elements' = found
                /\ idx' = 1
                /\ pc' = IF Examined(found) = <<>> THEN "finally" ELSE "elements"
          /\ UNCHANGED <<src, browser, page, articles, all_events, ei, ops, returned,
                         fetch_failed, opened, released, store, store0, snapshot,
                         since_change, prev_links, trace, envVars, pureVars>>
       \/ FetchFails

\* mutant: an error in one pass ends the loop
ElementErrorEndsLoop(elems, i) == "finally"

\* the next turn of the loop of line 73, or its end
NextElement(elems, i) == IF i = Len(elems) THEN "finally" ELSE "elements"

\* lines 103-105: continue
AfterElementError(elems, i) == NextElement(elems, i)

\* lines 73-105: one pass of the loop; a call on the element may raise
\* (line 103), and the completion call answers or raises
ProcessElement ==
    /\ pc = "elements"
    /\ LET elems == Examined(article_elements)
           e == elems[idx]
       IN  \/ /\ \E call \in (IF openai_client THEN Completions ELSE {CallFails}) :
                    articles' = articles \o Extracted(NEWS_SOURCES[src], e, openai_client, call)
              /\ trace' = IF Resolves(e)
                          THEN Append(trace, Ev("resolve", src, e.title, ExcerptOf(e)))
                          ELSE trace
              /\ pc' = NextElement(elems, idx)
           \/ /\ articles' = articles
              /\ trace' = trace
              /\ pc' = AfterElementError(elems, idx)
    /\ idx' = idx + 1
    /\ UNCHANGED <<src, browser, page, article_elements, all_events, ei, ops, returned,
                   fetch_failed, opened, released, store, store0, snapshot,
                   since_change, prev_links, envVars, pureVars>>

\* lines 109-112: finally, and the return
ClosePage ==
    /\ pc = "finally"
    /\ page' = "closed"
    /\ trace' = Append(trace, Ev("page_close", src, <<>>, <<>>))
    /\ pc' = "extend"
    /\ UNCHANGED <<src, browser, article_elements, idx, articles, all_events, ei, ops,
                   returned, fetch_failed, opened, released, store, store0, snapshot,
                   since_change, prev_links, envVars, pureVars>>

\* mutant: the events of a source are put in front
ExtendedInFront(events, new) == new \o events

\* line 201: all_events.extend(events)
Extended(events, new) == events \o new

\* lines 200-201
Extend ==
    /\ pc = "extend"
    /\ all_events' = Extended(all_events, articles)
    /\ pc' = "sleep"
    /\ UNCHANGED <<src, browser, page, article_elements, idx, articles, ei, ops,
                   returned, fetch_failed, opened, released, store, store0, snapshot,
                   since_change, prev_links, trace, envVars, pureVars>>

\* line 202, and the next turn of the for loop of line 199
Sleep ==
    /\ pc = "sleep"
    /\ trace' = Append(trace, Ev("sleep", src, <<>>, <<>>))
    /\ IF src < NumSources
       THEN /\ src' = src + 1
            /\ pc' = "new_page"
       ELSE /\ src' = src
            /\ pc' = "browser_close"
    /\ UNCHANGED <<browser, page, article_elements, idx, articles, all_events, ei, ops,
                   returned, fetch_failed, opened, released, store, store0, snapshot,
                   since_change, prev_links, envVars, pureVars>>

\* line 204
BrowserClose ==
    /\ pc = "browser_close"
    /\ browser' = "closed"
    /\ released' = released + 1
    /\ pc' = "report"
    /\ UNCHANGED <<src, page, article_elements, idx, articles, all_events, ei, ops,
                   returned, fetch_failed, opened, store, store0, snapshot,
                   since_change, prev_links, trace, envVars, pureVars>>

\* lines 206-212, and lines 156-158 of save_events
Report ==
    /\ pc = "report"
    /\ IF all_events # <<>> /\ supabase
       THEN /\ ei' = 1
            /\ pc' = "save"
       ELSE /\ ei' = ei
            /\ pc' = "return"
    /\ UNCHANGED <<src, browser, page, article_elements, idx, articles, all_events,
                   ops, returned, fetch_failed, opened, released, store, store0,
                   snapshot, since_change, prev_links, trace, envVars, pureVars>>

\* lines 160-183: one event; the existence check and the insert each
\* succeed or raise
SaveEvent ==
    /\ pc = "save"
    /\ LET event == EventAt(all_events, ei)
           link == event.link
       IN  \/ /\ ops' = Append(ops, Op("select", link, FALSE))
              /\ store' = store
              /\ pc' = AfterEvent(all_events, ei, FALSE)
           \/ /\ Existing(store, link) # {}
              /\ ops' = Append(ops, Op("select", link, TRUE))
              /\ store' = SkipDuplicate(store, event)
              /\ pc' = AfterEvent(all_events, ei, TRUE)
           \/ /\ Existing(store, link) = {}
              /\ ops' = ops \o <<Op("select", link, TRUE), Op("insert", link, FALSE)>>
              /\ store' = store
              /\ pc' = AfterEvent(all_events, ei, FALSE)
           \/ /\ Existing(store, link) = {}
              /\ ops' = ops \o <<Op("select", link, TRUE), Op("insert", link, TRUE)>>
              /\ store' = Append(store, Record(event))
              /\ pc' = AfterEvent(all_events, ei, TRUE)
    /\ all_events' = EventsAfterSave(all_events, ei)
    /\ ei' = ei + 1
    /\ UNCHANGED <<src, browser, page, article_elements, idx, articles, returned,
                   fetch_failed, opened, released, store0, snapshot, since_change, prev_links, trace,
                   envVars, pureVars>>

\* mutant: leaving the playwright context does not end a browser still open
ContextExitLeaks(b) == b

\* the browser after the `async with` of line 194 is left: the playwright
\* driver is stopped, and a browser still open ends with it
ContextExit(b) == IF b = "open" THEN "closed" ELSE b

\* line 214 (return all_events), or an exception on its way out of run
LeaveRun ==
    /\ pc \in {"return", "raising"}
    /\ browser' = ContextExit(browser)
    /\ released' = IF browser' # browser THEN released + 1 ELSE released
    /\ IF pc = "return"
       THEN /\ returned' = all_events
            /\ since_change' = IF since_change < 2 THEN since_change + 1 ELSE 2
            /\ prev_links' = {all_events[i].link : i \in 1..Len(all_events)}
            /\ pc' = "done"
       ELSE /\ returned' = returned
            /\ since_change' = since_change
            /\ prev_links' = prev_links
            /\ pc' = "aborted"
    /\ UNCHANGED <<src, page, article_elements, idx, articles, all_events, ei, ops,
                   fetch_failed, opened, store, store0, snapshot, trace, envVars, pureVars>>

\* lines 217-219 once more: a new process, the same environment and store
Rerun ==
    /\ pc \in {"done", "aborted"}
    /\ pc' = "idle"
    /\ src' = 0
    /\ browser' = "none"
    /\ page' = "none"
    /\ article_elements' = <<>>
    /\ idx' = 0
    /\ articles' = <<>>
    /\ all_events' = <<>>
    /\ ei' = 0
    /\ ops' = <<>>
    /\ returned' = Absent
    /\ fetch_failed' = {}
    /\ opened' = 0
    /\ released' = 0
    /\ trace' = <<>>
    /\ UNCHANGED <<store, store0, snapshot, since_change, prev_links, envVars, pureVars>>

\* the sources publish or withdraw articles between two runs
SourcesChange ==
    /\ pc = "idle"
    /\ ~snapshot.live
    /\ snapshot' \in FrozenSnapshots \ {snapshot}
    /\ since_change' = 0
    /\ UNCHANGED <<prev_links, trace, pc, src, browser, page, article_elements, idx, articles, all_events,
                   ei, ops, returned, fetch_failed, opened, released, store, store0,
                   envVars, pureVars>>

Scrape ==
    \/ NewPage \/ Goto \/ WaitForSelector \/ QuerySelectorAll
    \/ ProcessElement \/ ClosePage

Run == RunStart \/ Scrape \/ Extend \/ Sleep \/ BrowserClose \/ Report \/ SaveEvent \/ LeaveRun

PureIdle ==
    /\ fnpc = "off"
    /\ text = <<>>
    /\ event_type = None
    /\ prev = NoCall
    /\ title = <<>>
    /\ completion = CallFails
    /\ ret = NoRet

\* the state after construction: main() has made the LeadScraper
Constructed(openai_keys, snapshots) ==
    /\ pc = "idle"
    /\ SUPABASE_URL \in EnvValues
    /\ SUPABASE_KEY \in EnvValues
    /\ OPENAI_API_KEY \in openai_keys
    /\ snapshot \in snapshots
    /\ supabase = CreateSupabase(SUPABASE_URL, SUPABASE_KEY)
    /\ openai_client = CreateOpenAI(OPENAI_API_KEY)
    /\ since_change = 0
    /\ prev_links = {}
    /\ store = <<>>
    /\ store0 = <<>>
    /\ PerRunStart
    /\ PureIdle

\* one run, the sources live
Init == Constructed(EnvValues, {Live})

Next == Run

Spec == Init /\ [][Next]_vars

\* run after run, the sources frozen between changes
InitRuns == Constructed({Absent}, FrozenSnapshots)

NextRuns == Run \/ Rerun \/ SourcesChange

SpecRuns == InitRuns /\ [][NextRuns]_vars

-----------------------------------------------------------------------------
(* Inputs of the classifier: texts put together from a few fragments.      *)

MaxFrags == 2

TextFragments ==
   {
      <<"r", "a", "i", "s", "e", "d">>,
      <<"H", "I", "R", "E", "D">>,
      <<"L", "a", "u", "n", "c", "h", "i", "n", "g", " ", "I", "n">>,
      <<"u", "n", "v", "e", "i", "l", "s">>,
      <<"T", "e", "a", "m", "s", " ", "U", "p">>,
      <<" ">>,
      <<"x">>,
      <<"U+017F", "e", "r", "i", "e", "s">>,
      <<"l", "a", "u", "n", "c", "h">>,
      <<"e", "d">>
   }

RECURSIVE Concats(_)
Concats(n) ==
    IF n = 0 THEN {<<>>}
    ELSE LET shorter == Concats(n - 1)
         IN  shorter \cup {s \o f : s \in shorter, f \in TextFragments}

Texts == Concats(MaxFrags)

InitClassify ==
    /\ fnpc = "input"
    /\ text \in Texts
    /\ event_type = None
    /\ prev = NoCall
    /\ title = <<>>
    /\ completion = CallFails
    /\ ret = NoRet
    /\ openai_client = FALSE
    /\ PipelineIdle

\* a call detect_trigger_event(text)
Classify ==
    /\ fnpc = "input"
    /\ event_type' = detect_trigger_event(text)
    /\ fnpc' = "classified"
    /\ UNCHANGED <<text, prev, resolveVars, envVars, runVars>>

\* a second call, on the text with the case of one character changed
Recase ==
    /\ fnpc = "classified"
    /\ \E i \in 1..Len(text) :
         \E c \in {UpperChar(text[i]), LowerChar(text[i])} \ {text[i]} :
            /\ text' = [text EXCEPT ![i] = c]
            /\ event_type' = detect_trigger_event(text')
    /\ prev' = [text |-> text, event_type |-> event_type]
    /\ fnpc' = "recased"
    /\ UNCHANGED <<resolveVars, envVars, runVars>>

NextClassify == Classify \/ Recase

SpecClassify == InitClassify /\ [][NextClassify]_vars


-----------------------------------------------------------------------------
(* Properties of detect_trigger_event.                                     *)

\* s is the keyword k in some letter casing
IsCasingOf(s, k) ==
    /\ Len(s) = Len(k)
    /\ \A j \in 1..Len(k) : s[j] \in {k[j], UpperChar(k[j])}

\* the text holds, somewhere, a keyword of category i in some casing
Mentions(t, i) ==
    \E j \in 1..Len(TRIGGER_KEYWORDS[i].keywords) :
       LET k == TRIGGER_KEYWORDS[i].keywords[j]
       IN  \E p \in 1..(Len(t) - Len(k) + 1) : IsCasingOf(SubSeq(t, p, p + Len(k) - 1), k)

Mentioned(t) == {i \in 1..Len(TRIGGER_KEYWORDS) : Mentions(t, i)}

FirstOf(S) == CHOOSE i \in S : \A j \in S : i <= j

EventTypes == {TRIGGER_KEYWORDS[i].event_type : i \in 1..Len(TRIGGER_KEYWORDS)}

Classified == fnpc \in {"classified", "recased"}

\* C2: a text with keywords of two or more categories is classified as the
\* category declared first in the taxonomy, wherever the keywords stand in
\* the text, and the result is always one category or none.
C2_FirstDeclaredWins ==
    Classified =>
       /\ event_type \in EventTypes \cup {None}
       /\ Cardinality(Mentioned(text)) >= 2
             => event_type = TRIGGER_KEYWORDS[FirstOf(Mentioned(text))].event_type

\* "HIRED" stands before "raised" in the text and funding still wins
C2_Witness ==
    /\ fnpc = "classified"
    /\ Mentioned(text) = {1, 2}
    /\ SubSeq(text, 1, 5) = <<"H", "I", "R", "E", "D">>
    /\ event_type = "funding"

NoKeywordInLower(t) ==
    \A i \in 1..Len(TRIGGER_KEYWORDS) :
       \A j \in 1..Len(TRIGGER_KEYWORDS[i].keywords) :
          ~Contains(Lower(t), TRIGGER_KEYWORDS[i].keywords[j])

C3_NoneAndSingle ==
    Classified =>
       /\ (event_type = None) <=> NoKeywordInLower(text)
       /\ \A i \in 1..Len(TRIGGER_KEYWORDS) :
             Mentioned(text) = {i} => event_type = TRIGGER_KEYWORDS[i].event_type

\* the characters the second call's text changed
Recased == {prev.text[i] : i \in {j \in 1..Len(text) : prev.text[j] # text[j]}}

\* C3 as stated: none exactly when the lower-cased text holds no keyword,
\* the one category when exactly one is mentioned, and the same result for
\* every re-casing of the text.
C3_AsStated ==
    /\ C3_NoneAndSingle
    /\ fnpc = "recased" => event_type = prev.event_type

\* C3 as amended: the result is the same for every re-casing of ASCII
\* letters (U+017F and U+0131 upper-case to S and I, which str.lower does
\* not bring back).
C3_AsciiRecasing ==
    /\ C3_NoneAndSingle
    /\ (fnpc = "recased" /\ Recased \subseteq AsciiLetters)
          => event_type = prev.event_type

\* "HIRED" re-cased in one letter is still new_hires
C3_Witness ==
    /\ fnpc = "recased"
    /\ Len(text) = 5
    /\ Mentioned(text) = {2}
    /\ text # prev.text
    /\ event_type = "new_hires"
    /\ prev.event_type = "new_hires"
-----------------------------------------------------------------------------
(* Inputs of the resolver.                                                 *)

MaxTitleFrags == 4

TitleFragments ==
   {
      <<"A", "c", "m", "e", " ">>,
      <<"r", "a", "i", "s", "e", "s", " ">>,
      <<"$", "1", "0", "M", " ">>,
      <<"S", "e", "r", "i", "e", "s">>,
      <<" ">>,
      <<"\t">>,
      <<"a", "b", "c", "d", "e", "f", "g", "h", "i", "j", "k", "l", "m", "n", "o", "p", "q", "r", "s", "t", "u", "v", "w", "x", "y", "z">>
   }

RECURSIVE TitleConcats(_)
TitleConcats(n) ==
    IF n = 0 THEN {<<>>}
    ELSE LET shorter == TitleConcats(n - 1)
         IN  shorter \cup {s \o f : s \in shorter, f \in TitleFragments}

Titles == TitleConcats(MaxTitleFrags)

InitResolve ==
    /\ fnpc = "input"
    /\ title \in Titles
    /\ openai_client \in BOOLEAN
    /\ completion \in Completions
    /\ ret = NoRet
    /\ text = <<>>
    /\ event_type = None
    /\ prev = NoCall
    /\ PipelineIdle

\* a call extract_company_name(title, "")
Resolve ==
    /\ fnpc = "input"
    /\ ret' = extract_company_name(title, <<>>, openai_client, completion)
    /\ fnpc' = IF ret'.raised THEN "raised" ELSE "returned"
    /\ UNCHANGED <<title, completion, classifyVars, envVars, runVars>>

NextResolve == Resolve

SpecResolve == InitResolve /\ [][NextResolve]_vars

\* C4: without a completion client the name is the first 3 tokens of the
\* title joined by single spaces when the title has more than 3 tokens,
\* the whole title otherwise, and "Unknown Company" for an empty title.
C4_FallbackName ==
    (fnpc # "input" /\ ~openai_client) =>
       ret = Returned(IF title = <<>> THEN UnknownCompany
                      ELSE IF Len(Split(title)) > 3
                           THEN Join(SubSeq(Split(title), 1, 3))
                           ELSE title)

\* C5: with a client whose call fails no error leaves the resolver: the
\* name is the first token of the title, or "Unknown Company" when the
\* title has no token.
C5_FailedCallName ==
    (fnpc # "input" /\ openai_client /\ ~completion.ok) =>
       ret = Returned(IF Split(title) = <<>> THEN UnknownCompany
                      ELSE Split(title)[1])

-----------------------------------------------------------------------------
(* Properties of the run.                                                  *)

Unique(st) ==
    \A i, j \in 1..Len(st) : st[i].source_url = st[j].source_url => i = j

Links(events) == {events[i].link : i \in 1..Len(events)}

Urls(st) == {st[i].source_url : i \in 1..Len(st)}

\* the inserts of the current run that went through
Inserted == {i \in 1..Len(ops) : ops[i].op = "insert" /\ ops[i].ok}

OneInsertPerLink ==
    \A i, j \in Inserted : ops[i].url = ops[j].url => i = j

\* the run is in or past save_events, an earlier run over the same,
\* unchanged snapshot has returned, and both accumulated the same links
SecondRunSaving ==
    /\ since_change >= 1
    /\ pc \in {"save", "return"}
    /\ Links(all_events) = prev_links

\* C1 as stated: the store never holds two rows with one source_url, a
\* second run over an unchanged source snapshot inserts no row, and two
\* events with one link in a run lead to at most one insert.
C1_AsStated ==
    /\ Unique(store)
    /\ OneInsertPerLink
    /\ SecondRunSaving => Inserted = {}

\* C1 as amended: the store never holds two rows with one source_url, a
\* run inserts no row when the store it started with holds the link of
\* each of its events (the second run over an unchanged snapshot whose
\* events the first run stored), and two events with one link in a run
\* lead to at most one insert.
C1_UniqueSourceUrl ==
    /\ Unique(store)
    /\ OneInsertPerLink
    /\ Links(all_events) \subseteq Urls(store0) => Inserted = {}

\* a second run over the unchanged snapshot finds two events with one link,
\* one row for it in the store, and inserts nothing
C1_Witness ==
    /\ SecondRunSaving
    /\ pc = "return"
    /\ Len(all_events) >= 2
    /\ all_events[1].link = all_events[2].link
    /\ Cardinality(Existing(store, all_events[1].link)) = 1
    /\ Links(all_events) \subseteq Urls(store0)
    /\ \E i \in 1..Len(ops) : ops[i].op = "select" /\ ops[i].ok
    /\ Inserted = {}

EventsFrom(s) ==
    {i \in 1..Len(all_events) : all_events[i].source = NEWS_SOURCES[s].name}

\* C6: a source whose fetch fails at any step (new_page, goto, the wait for
\* the selector, the query) contributes no event, the failure does not
\* leave scrape_source, and the run goes on through every later source.
C6_FetchFailureSkipsSource ==
    /\ \A s \in fetch_failed :
          /\ EventsFrom(s) = {}
          /\ src = s => articles = <<>>
    /\ fetch_failed # {} => pc \notin {"raising", "aborted"}
    /\ pc \in {"done", "aborted"} => src = NumSources

\* C7: no failure ends the run early with an error, and a run that has
\* ended has returned the accumulated list.
C7_RunAlwaysCompletes ==
    /\ pc \notin {"raising", "aborted"}
    /\ pc = "done" => returned = all_events

ScrapingPcs == {"new_page", "goto", "wait", "query", "elements", "finally", "extend", "sleep"}

\* C8: the browser is launched once in a run and released once by the time
\* the run has ended, normally or by an error; it is open while the sources
\* are processed and whenever a page is open.
C8_BrowserOnce ==
    /\ opened <= 1
    /\ released <= 1
    /\ pc \in {"done", "aborted"} => opened = 1 /\ released = 1 /\ browser = "closed"
    /\ pc \in ScrapingPcs => opened = 1 /\ released = 0 /\ browser = "open"
    /\ page = "open" => browser = "open"

\* new_page failed at the second source: the run ended by the error with
\* the browser released once
C8_Witness ==
    /\ pc = "aborted"
    /\ src = 2
    /\ opened = 1
    /\ released = 1
    /\ browser = "closed"

\* C9: persistence leaves the accumulated list as it is, and run returns
\* that list.
C9_ReturnsAccumulated ==
    [][ /\ pc \in {"report", "save", "return"} => all_events' = all_events
        /\ pc' = "done" => returned' = all_events ]_vars

\* three events returned, the first two with one link; a check failed, and
\* the store took one row
C9_Witness ==
    /\ pc = "done"
    /\ Len(returned) = 3
    /\ returned[1].link = returned[2].link
    /\ Len(store) = 1
    /\ \E i \in 1..Len(ops) : ~ops[i].ok
    /\ \E i \in 1..Len(ops) : ops[i].op = "select" /\ ops[i].ok /\ ops[i].url = returned[2].link

StoreNotConfigured == ~Truthy(SUPABASE_URL) \/ ~Truthy(SUPABASE_KEY)

\* C10: without SUPABASE_URL or SUPABASE_SERVICE_ROLE_KEY a run makes no
\* existence check and no insert, the store stays as it was, persistence
\* raises nothing (an error that ends the run is a fetch error), and the
\* run returns the accumulated events.
C10_NoStoreNoPersistence ==
    StoreNotConfigured =>
       /\ ops = <<>>
       /\ store = store0
       /\ pc # "save"
       /\ pc \in {"raising", "aborted"} => fetch_failed # {}
       /\ pc = "done" => returned = all_events

\* the URL is set, the key is not: the run returned its events and the
\* store was not touched
C10_Witness ==
    /\ pc = "done"
    /\ Truthy(SUPABASE_URL)
    /\ ~Truthy(SUPABASE_KEY)
    /\ Len(returned) >= 1
    /\ ops = <<>>

-----------------------------------------------------------------------------
(* Properties of save_events.                                              *)

IsCheck(o) == o.op = "select"

\* the existence checks of the run, in order
Checks == SelectSeq(ops, IsCheck)

\* the links in the store just before the k-th operation of the run
StoredBefore(k) ==
    Urls(store0) \cup {ops[j].url : j \in {j \in 1..(k - 1) : ops[j].op = "insert" /\ ops[j].ok}}

\* save_events has handled the events before position n, one check each,
\* in the order of the list
CheckedUpTo(n) ==
    /\ Len(Checks) = n - 1
    /\ \A i \in 1..(n - 1) : Checks[i].url = all_events[i].link

\* C11: a failed existence check or a failed insert skips that event only:
\* no insert follows a failed check, and every event of the list, the ones
\* after a failure too, gets its own existence check and, its link not
\* being in the store, its own insert attempt.
C11_FailureSkipsOneEvent ==
    /\ \A k \in 1..Len(ops) :
          /\ ops[k].op = "insert" => k > 1 /\ ops[k - 1] = Op("select", ops[k].url, TRUE)
          /\ ops[k].op = "select" /\ ops[k].ok /\ ops[k].url \notin StoredBefore(k)
                => k < Len(ops) /\ ops[k + 1].op = "insert" /\ ops[k + 1].url = ops[k].url
    /\ pc = "save" => CheckedUpTo(ei)
    /\ pc \in {"return", "done"} /\ supabase /\ all_events # <<>>
          => CheckedUpTo(Len(all_events) + 1)

\* save_events is through a list of three events or more: a check failed
\* and a later event was inserted, an insert failed and a later event was
\* checked
C11_Witness ==
    /\ pc = "return"
    /\ Len(all_events) >= 3
    /\ \E k \in 1..Len(ops) :
          /\ ops[k].op = "select" /\ ~ops[k].ok
          /\ \E j \in (k + 1)..Len(ops) : ops[j].op = "insert" /\ ops[j].ok
    /\ \E k \in 1..Len(ops) :
          /\ ops[k].op = "insert" /\ ~ops[k].ok
          /\ \E j \in (k + 1)..Len(ops) : ops[j].op = "select"

\* the fields of a row that C12 names
RowFields(r) ==
    <<r.company_name, r.event_type, r.event_description, r.detected_at, r.company_url>>

\* C12: when the existence check finds a row with the event's source_url,
\* save_events leaves the store as it is for that event: it makes no
\* insert, and the row it found keeps its fields.
C12_DuplicateLeavesStore ==
    [][ pc = "save" /\ Existing(store, all_events[ei].link) # {}
           => /\ \A k \in (Len(ops) + 1)..Len(ops') : ops'[k].op = "select"
              /\ store' = store
              /\ \A i \in Existing(store, all_events[ei].link) :
                    RowFields(store'[i]) = RowFields(store[i]) ]_vars

\* the check of a second event found the row of a first one with the same
\* link and other fields; no insert followed, the row is as it was
C12_Witness ==
    /\ pc \in {"save", "return"}
    /\ ei >= 3
    /\ Len(ops) >= 3
    /\ ops[Len(ops)] = Op("select", all_events[ei - 1].link, TRUE)
    /\ \E i \in Existing(store, all_events[ei - 1].link) :
          /\ RowFields(store[i]) # RowFields(Record(all_events[ei - 1]))
          /\ store[i] = Record(all_events[ei - 2])

-----------------------------------------------------------------------------
(* Properties of scrape_source.                                            *)

IsPrefixOf(s, t) == Len(s) <= Len(t) /\ SubSeq(t, 1, Len(s)) = s

\* what a pass over element e may leave in articles: the list as it was
\* (the element skipped), or the list with the event of e at its end
AfterPass(e) ==
    {articles} \cup
    {articles \o Extracted(NEWS_SOURCES[src], e, openai_client, call) : call \in Completions}

\* the element cannot yield an event: its title element is missing, or a
\* call of the pass raises (get_attribute gave None, the resolver raised)
MustSkip(e) ==
    \/ ~e.title_elem
    \/ e.href = Absent
    \/ \A call \in (IF openai_client THEN Completions ELSE {CallFails}) :
          Extracted(NEWS_SOURCES[src], e, openai_client, call) = <<>>

\* C13: within a source, an element without a title element, or one whose
\* processing raises, is skipped without an event, and the loop goes on:
\* the events of earlier elements are kept, and every later element among
\* the examined ones is processed.
C13_ElementSkippedAlone ==
    [][ pc = "elements" =>
           LET e == Examined(article_elements)[idx]
           IN  /\ articles' \in AfterPass(e)
               /\ IsPrefixOf(articles, articles')
               /\ MustSkip(e) => articles' = articles
               /\ idx' = idx + 1
               /\ pc' = IF idx < Len(Examined(article_elements)) THEN "elements" ELSE "finally"
               /\ src \notin fetch_failed' ]_vars

\* the loop is through three elements: one without an href and one without
\* a trigger came before the one that gave the event
C13_Witness ==
    /\ pc = "finally"
    /\ src \notin fetch_failed
    /\ article_elements = <<ElNoHref, ElPlain, ElAbsolute>>
    /\ idx = 4
    /\ Len(articles) = 1

Digits == {"0", "1", "2", "3", "4", "5", "6", "7", "8", "9"}

\* an absolute URL starts with a scheme: a letter, then letters, digits,
\* "+", "-" or ".", then ":"
IsAbsoluteUrl(href) ==
    \E n \in 1..(Len(href) - 1) :
       /\ href[n + 1] = ":"
       /\ href[1] \in AsciiLetters
       /\ \A i \in 2..n : href[i] \in AsciiLetters \cup Digits \cup {"+", "-", "."}

\* the link C14 states for a fetched href
StatedLink(source, href) ==
    IF IsAbsoluteUrl(href) THEN href ELSE source.url \o href

\* article a is the event of element e as C14 states it
StatedArticleOf(a, source, e) ==
    /\ e.title_elem
    /\ e.href # Absent
    /\ a.title = Strip(e.title)
    /\ a.excerpt = Strip(ExcerptOf(e))
    /\ a.link = StatedLink(source, e.href)

\* C14: the link of every extracted article is the fetched link when that
\* is an absolute URL and the source's base URL followed by the fetched
\* link otherwise, and that link is the source_url of the existence check
\* and of the insert for the event.
C14_LinkQualified ==
    /\ pc \in {"elements", "finally"} =>
          \A k \in 1..Len(articles) :
             \E i \in 1..(idx - 1) :
                StatedArticleOf(articles[k], NEWS_SOURCES[src], Examined(article_elements)[i])
    /\ \A k \in 1..Len(ops) : ops[k].url \in Links(all_events)
    /\ pc = "save" => CheckedUpTo(ei)
    /\ \A k \in Inserted : \E i \in 1..Len(store) : store[i].source_url = ops[k].url

\* article a is what the pass over element e appends (lines 79-102)
ArticleOf(a, source, e) ==
    /\ e.title_elem
    /\ e.href # Absent
    /\ a.title = Strip(e.title)
    /\ a.excerpt = Strip(ExcerptOf(e))
    /\ a.link = QualifyLink(source, e.href)
    /\ a.source = source.name

Min(a, b) == IF a <= b THEN a ELSE b

\* C15: of the elements fetched for a source only the first ten, in
\* fetched order, are examined: the loop never stands at an eleventh
\* element, every article comes from one of the first ten, and a source
\* gives at most ten events to the run.
C15_FirstTenOnly ==
    /\ pc = "elements" => idx <= 10 /\ idx <= Len(article_elements)
    /\ pc \in {"elements", "finally"} =>
          \A k \in 1..Len(articles) :
             \E i \in 1..Min(idx - 1, 10) :
                ArticleOf(articles[k], NEWS_SOURCES[src], article_elements[i])
    /\ Len(articles) <= 10
    /\ \A s \in 1..NumSources : Cardinality(EventsFrom(s)) <= 10

\* a source served eleven elements, the eleventh with a trigger: the loop
\* ended after the tenth, without an event
C15_Witness ==
    /\ pc = "finally"
    /\ src \notin fetch_failed
    /\ Len(article_elements) = 11
    /\ Resolves(article_elements[11])
    /\ idx = 11
    /\ articles = <<>>

-----------------------------------------------------------------------------
(* Properties of the order of a run.                                       *)

SourceIndex(name) == CHOOSE s \in 1..NumSources : NEWS_SOURCES[s].name = name

\* the positions of trace where step kind of source s stands
Steps(kind, s) == {k \in 1..Len(trace) : trace[k].ev = kind /\ trace[k].src = s}

\* there is a way to match the articles, in order, to elements before
\* position n of the loop, in order
InElementOrder(n) ==
    \E f \in [1..Len(articles) -> 1..(n - 1)] :
       /\ \A j, k \in 1..Len(articles) : j < k => f[j] < f[k]
       /\ \A k \in 1..Len(articles) :
             ArticleOf(articles[k], NEWS_SOURCES[src], article_elements[f[k]])

\* C16: the sources are processed one at a time in registry order with the
\* pause between them: the page of a source is opened only after the page
\* of every earlier source was opened and closed and the pause after it is
\* over, and the accumulated list is in registry order of the sources and,
\* within a source, in element order.
C16_SourcesInOrder ==
    /\ \A k \in 1..Len(trace) : trace[k].ev = "new_page" =>
          \A s \in 1..(trace[k].src - 1) :
             \E o \in Steps("new_page", s), c \in Steps("page_close", s), p \in Steps("sleep", s) :
                o < c /\ c < p /\ p < k
    /\ \A s \in 1..NumSources : Cardinality(Steps("new_page", s)) <= 1
    /\ pc \in {"goto", "wait", "query", "elements", "finally"} =>
          /\ Steps("new_page", src) # {}
          /\ \A s \in 1..(src - 1) : Steps("sleep", s) # {}
    /\ \A i, j \in 1..Len(all_events) :
          i < j => SourceIndex(all_events[i].source) <= SourceIndex(all_events[j].source)
    /\ \A i \in 1..Len(all_events) :
          SourceIndex(all_events[i].source) <= src
    /\ pc \in {"elements", "finally"} => InElementOrder(idx)
    /\ pc \in {"sleep"} =>
          /\ Len(all_events) >= Len(articles)
          /\ SubSeq(all_events, Len(all_events) - Len(articles) + 1, Len(all_events)) = articles

\* the second source is through after the first: each gave two events, in
\* element order, and the pause after the first source came before the
\* page of the second
C16_Witness ==
    /\ pc = "sleep"
    /\ src = 2
    /\ Len(all_events) = 4
    /\ Len(articles) = 2
    /\ articles[1].excerpt # articles[2].excerpt
    /\ all_events[1].source = NEWS_SOURCES[1].name
    /\ all_events[3].source = NEWS_SOURCES[2].name
    /\ all_events[3].link # all_events[1].link
    /\ \E p \in Steps("sleep", 1), o \in Steps("new_page", 2) : p < o

-----------------------------------------------------------------------------
(* Properties of the gate between classification and resolution.           *)

\* article a went through the resolver: a call with its title and excerpt
ResolvedBefore(a) ==
    \E k \in 1..Len(trace) :
       /\ trace[k].ev = "resolve"
       /\ NEWS_SOURCES[trace[k].src].name = a.source
       /\ Strip(trace[k].title) = a.title
       /\ Strip(trace[k].excerpt) = a.excerpt

\* what holds of the gate under both readings of C17: the category of
\* every event is one of the five, every article went through the
\* resolver, and a call of the resolver (seen in the state it is made in,
\* as the last step of trace) has a title and excerpt whose classification
\* is one of the five
Gated ==
    /\ \A i \in 1..Len(all_events) : all_events[i].event_type \in EventTypes
    /\ \A k \in 1..Len(articles) :
          /\ articles[k].event_type \in EventTypes
          /\ ResolvedBefore(articles[k])
    /\ trace # <<>> /\ trace[Len(trace)].ev = "resolve" =>
          detect_trigger_event(trace[Len(trace)].title \o <<" ">> \o trace[Len(trace)].excerpt)
             \in EventTypes

\* C17 as stated: the category of every event is the classification of its
\* title and excerpt joined together, and the resolver is not called for
\* an article whose classification is none.
C17_AsStated ==
    /\ Gated
    /\ \A i \in 1..Len(all_events) :
          all_events[i].event_type =
             detect_trigger_event(all_events[i].title \o <<" ">> \o all_events[i].excerpt)

\* C17 as amended: the category of every event is the classification of
\* the title and excerpt as fetched, before white space is stripped from
\* them, joined by a space, and the resolver is not called for an article
\* whose classification is none.
C17_ClassificationGates ==
    /\ Gated
    /\ pc \in {"elements", "finally"} =>
          \A k \in 1..Len(articles) :
             \E i \in 1..(idx - 1) :
                /\ ArticleOf(articles[k], NEWS_SOURCES[src], article_elements[i])
                /\ articles[k].event_type = EventTypeOf(article_elements[i])

\* the loop is through an element without a trigger and one with: one
\* resolver call, one event
C17_Witness ==
    /\ pc = "finally"
    /\ idx = Len(article_elements) + 1
    /\ \E i \in 1..Len(article_elements) :
          /\ article_elements[i].title_elem
          /\ article_elements[i].href # Absent
          /\ EventTypeOf(article_elements[i]) = None
    /\ Cardinality(Steps("resolve", src)) = 1
    /\ Len(articles) = 1
    /\ articles[1].event_type = "funding"

\* every source of the registry has been processed: its pause is over
AllSourcesProcessed == \A s \in 1..NumSources : Steps("sleep", s) # {}

\* C18: no existence check and no insert is made before every source has
\* been processed and the browser closed; persistence then handles the
\* events one after the other in accumulated order, each once at most, and
\* with an empty accumulated list the store is not touched.
C18_PersistAfterTeardown ==
    /\ ops # <<>> =>
          /\ pc \in {"save", "return", "done"}
          /\ AllSourcesProcessed
          /\ page # "open"
          /\ browser = "closed"
    /\ pc = "save" => AllSourcesProcessed /\ browser = "closed" /\ CheckedUpTo(ei)
    /\ ops # <<>> /\ pc \in {"return", "done"} => CheckedUpTo(Len(all_events) + 1)
    /\ Len(Checks) <= Len(all_events)
    /\ all_events = <<>> => ops = <<>> /\ store = store0

\* both sources are through and the browser is closed; persistence has
\* handled events of different links in the order of the list
C18_Witness ==
    /\ pc = "return"
    /\ browser = "closed"
    /\ AllSourcesProcessed
    /\ Len(all_events) >= 2
    /\ all_events[1].link # all_events[Len(all_events)].link
    /\ Len(Checks) = Len(all_events)
    /\ Checks[1].url = all_events[1].link
    /\ Inserted # {}

-----------------------------------------------------------------------------
(* Properties of the pages.                                                *)

\* the pages open after the first n steps of trace
OpenAfter(n) ==
    Cardinality({k \in 1..n : trace[k].ev = "new_page"})
       - Cardinality({k \in 1..n : trace[k].ev = "page_close"})

\* scrape_source stands between new_page and the finally of line 109
InsideScrape == pc \in {"goto", "wait", "query", "elements", "finally"}

\* C19: a page that scrape_source opens is closed once before
\* scrape_source returns, after a scrape that went through, after a
\* source-level failure and after failures of single elements: no source
\* has two pages, no page is closed twice, at most one page is open at any
\* moment, and none is open outside scrape_source, when persistence starts
\* in particular.
C19_PageClosedOnce ==
    /\ \A s \in 1..NumSources :
          /\ Cardinality(Steps("new_page", s)) <= 1
          /\ Cardinality(Steps("page_close", s)) <= Cardinality(Steps("new_page", s))
          /\ \A o \in Steps("new_page", s), c \in Steps("page_close", s) : o < c
    /\ \A n \in 0..Len(trace) : OpenAfter(n) \in {0, 1}
    /\ InsideScrape => page = "open" /\ OpenAfter(Len(trace)) = 1
    /\ ~InsideScrape => page # "open" /\ OpenAfter(Len(trace)) = 0
    /\ ops # <<>> => OpenAfter(Len(trace)) = 0

\* the fetch of the first source failed and the second source gave an
\* event: both pages were opened and closed, and none is open when the
\* run comes to persistence
C19_Witness ==
    /\ pc = "report"
    /\ fetch_failed = {1}
    /\ Len(all_events) >= 1
    /\ \A s \in 1..NumSources :
          Cardinality(Steps("new_page", s)) = 1 /\ Cardinality(Steps("page_close", s)) = 1
    /\ page = "closed"

=============================================================================
